---- MODULE Spec2Model ----
(***************************************************************************)
(* A model of aya-metrics: EbpfMetrics::run fans out one emit_metrics      *)
(* future per Metric; every future registers its counter handles, then     *)
(* loops: wait for the interval, lock the shared PerCpuArray, read the     *)
(* per-CPU values of its meter, and increment its handles by the deltas.   *)
(*                                                                         *)
(* The futures are interleaved at their await points (interval.tick() and  *)
(* Mutex::lock()) and, more finely, between the guarded read and the       *)
(* delta loop, so that the lock is what serialises the reads.              *)
(***************************************************************************)
EXTENDS Integers, Sequences, FiniteSets, TLC

\* ------------------------------------------------------------------ bounds
MaxCpus == 2        \* nr_cpus() is drawn from 1..MaxCpus
MaxValue == 2       \* the producer writes per-CPU values in 0..MaxValue
MaxTicks == 2       \* every task completes at most MaxTicks ticks
MaxMetrics == 2     \* SpecRun: EbpfMetrics.metrics holds MaxMetrics metrics
Period == 2         \* SpecTime: EbpfMetrics.period, in units of the clock
MaxTime == 6        \* SpecTime: the clock runs from 0 to MaxTime
MaxFired == 3       \* SpecTime: interval.tick() completes at most MaxFired times
MaxCalls == 3       \* SpecProducer: counter() is called at most MaxCalls times

\* u64 is modelled as a word of WordBits bits: the widest for which TLC's
\* integers hold every intermediate sum (a + b < 2^31 for a, b < 2^30).
WordBits == 30
U64 == 2 ^ WordBits

\* PerCpuArray::try_from builds a table of one entry; the tests also build an
\* empty one.
MockEntries == 1

\* the COUNTERS map of the eBPF side has BPF_COUNTERS_MAX_ENTRIES slots per CPU
\* (64 in the source; every Counter index of the model is below it)
BPF_COUNTERS_MAX_ENTRIES == 2

VARIABLES
    cpu_count,              \* nr_cpus()
    online,                 \* online_cpus(), ascending
    overflow_checks,        \* the build: TRUE panics on integer overflow, FALSE wraps
    counters,               \* PerCpuArray.inner: the rows, one per meter index
    decreased,              \* history: some per-CPU value has been set lower than it was
    mutex,                  \* futures::lock::Mutex: the task holding the guard, or Unlocked
    metrics,                \* EbpfMetrics.metrics
    recorder,               \* MockRecorder.counters: registered Key -> accumulated value
    pc,                     \* where each emit_metrics future stands
    cpus,                   \* per task: online_cpus() as captured at start
    counter_handles,        \* per task: one handle per Dimension::By
    counter_handles_by_cpu, \* per task: per Dimension::ByCpu, a handle per CPU id
    prev_values,            \* per task: the values of the previous period
    counter_values,         \* per task: the values read on the current tick
    run_state,              \* "running", "returned" or "panicked"
    run_result,             \* the Err that run returned, or NoError
    task_result,            \* per task: the Err that emit_metrics returned, or NoError
    ticks,                  \* history, per task: completed ticks
    reads,                  \* history, per task: calls of PerCpuArray::get
    snapshot_prev,          \* history, per task: the values read on the tick before
    last_delta,             \* history, per task: the delta computed per CPU on the last tick
    received,               \* history, per task and handle: the last tick's increment
    inc_count,              \* history, per task and handle: increments so far
    now,                    \* tokio's clock (Instant::now())
    interval,               \* per task: the deadline of the Interval's next tick
    started_at,             \* history, per task: the clock when the loop was entered
    tick_log,               \* history, per task: per tick, when it was due and when it fired
    offline_at_tick,        \* history, per task: the captured CPUs offline at the last delta loop
    calls,                  \* history, per task: its calls of the recorder, in order
    producer                \* the eBPF side: what counter() has added to each slot, and its state

\* the clock and the intervals; untouched where the clock is not observed
timers == << now, interval, started_at, tick_log >>

vars == << cpu_count, online, overflow_checks, counters, decreased, mutex, metrics,
           recorder, pc, cpus, counter_handles, counter_handles_by_cpu, prev_values,
           counter_values, run_state, run_result, task_result, ticks, reads,
           snapshot_prev, last_delta, received, inc_count,
           now, interval, started_at, tick_log, offline_at_tick, calls, producer >>

\* ------------------------------------------------------- the metric model
Unlocked == 0
NoError == "none"
None == -1          \* Option::None of a u64, and "no increment" in the histories

Meters == {0, 1}    \* a Counter enum of two variants; index(m) = m, name(m) = m
Index(meter) == meter
Name(meter) == meter

LabelSets == {"none", "hostname"}
Dimension == [kind : {"By", "ByCpu"}, labels : LabelSets]
By(labels) == [kind |-> "By", labels |-> labels]
ByCpu(labels) == [kind |-> "ByCpu", labels |-> labels]

\* metrics::Key: the name and the labels; cpu is the value of the "cpu" label,
\* None without one.
Key(name, labels, cpu) == [name |-> name, labels |-> labels, cpu |-> cpu]
Noop == [name |-> None, labels |-> "noop", cpu |-> None]

Tasks == 1..Len(metrics)
CpuIds == 0..(cpu_count - 1)
Zeros == [c \in CpuIds |-> 0]

\* ------------------------------------------------------------- arithmetic
\* u64 subtraction and addition: [ok |-> no overflow, val |-> the wrapped result]
\* (SubForgotten: the value itself is taken for the delta)
SubForgotten(a, b) == [ok |-> TRUE, val |-> a]
Sub(a, b) == [ok |-> a >= b, val |-> (a - b + U64) % U64]
Add(a, b) == [ok |-> a + b < U64, val |-> (a + b) % U64]

\* the ascending sequence of the members of a set of CPU ids
RECURSIVE Ascending(_)
Ascending(S) ==
    IF S = {} THEN << >>
    ELSE LET m == CHOOSE x \in S : \A y \in S : x <= y
         IN << m >> \o Ascending(S \ {m})

Range(f) == {f[x] : x \in DOMAIN f}

\* ------------------------------------------------------- the Counter Source
\* PerCpuArray::get (mock): OutOfBounds past the table; KeyNotFound when
\* PerCpuValues::try_from fails (io says whether the environment lets it succeed).
\* (GetOrDefault: an index past the table reads as a row of zeros)
GetOrDefault(index, io) ==
    IF ~io THEN [ok |-> FALSE, err |-> "KeyNotFound"]
    ELSE [ok |-> TRUE,
          values |-> IF index >= Len(counters) THEN Zeros ELSE counters[index + 1]]
Get(index, io) ==
    IF index >= Len(counters) THEN [ok |-> FALSE, err |-> "OutOfBounds"]
    ELSE IF ~io THEN [ok |-> FALSE, err |-> "KeyNotFound"]
    ELSE [ok |-> TRUE, values |-> counters[index + 1]]

\* PerCpuArray::set (mock), the producer's side of the table in the tests
Set(index, values) ==
    /\ index < Len(counters)
    /\ values # counters[index + 1]
    /\ counters' = [counters EXCEPT ![index + 1] = values]
    /\ decreased' = (decreased \/ \E c \in CpuIds : values[c] < counters[index + 1][c])
    /\ UNCHANGED << cpu_count, online, overflow_checks, mutex, metrics, recorder, pc,
                    cpus, counter_handles, counter_handles_by_cpu, prev_values,
                    counter_values, run_state, run_result, task_result, ticks, reads,
                    snapshot_prev, last_delta, received, inc_count >>
    /\ UNCHANGED << timers, offline_at_tick, calls, producer >>

\* ------------------------------------------------------- the eBPF producer
\* COUNTERS.get_ptr_mut(index): the slot of the running CPU, None past the map
GetPtrMut(index) == IF index < Len(counters) THEN index + 1 ELSE None

\* the values the programs and the tests add: nothing, one, and the largest u64
ProducerValues == {0, 1, U64 - 1}

\* `*counter += value`: u64 addition, which panics on overflow in a build with
\* overflow checks and wraps in one without
AddAssign(slot, value) == Add(slot, value)

\* counter(counter, value) of aya-metrics-ebpf, called by a program that runs
\* on CPU cpu
counter(cpu, c, value) ==
    /\ producer.state = "running"
    /\ producer.calls < MaxCalls
    /\ LET slot == GetPtrMut(Index(c))
       IN IF slot = None
          THEN /\ producer' = [producer EXCEPT !.calls = @ + 1]
               /\ UNCHANGED << counters, decreased >>
          ELSE /\ producer.added[slot][cpu] < U64
               /\ LET sum == AddAssign(counters[slot][cpu], value)
                  IN IF ~sum.ok /\ overflow_checks
                     THEN /\ producer' = [producer EXCEPT !.calls = @ + 1,
                                                          !.state = "panicked"]
                          /\ UNCHANGED << counters, decreased >>
                     ELSE /\ counters' = [counters EXCEPT ![slot][cpu] = sum.val]
                          /\ decreased' = (decreased \/ sum.val < counters[slot][cpu])
                          /\ producer' = [producer EXCEPT !.calls = @ + 1,
                                                          !.added[slot][cpu] = @ + value]
    /\ UNCHANGED << cpu_count, online, overflow_checks, mutex, metrics, recorder, pc,
                    cpus, counter_handles, counter_handles_by_cpu, prev_values,
                    counter_values, run_state, run_result, task_result, ticks, reads,
                    snapshot_prev, last_delta, received, inc_count >>
    /\ UNCHANGED << timers, offline_at_tick, calls >>

\* --------------------------------------------------------- the Metric Sink
\* MockRecorder::register_counter: entry(key).or_default()
Register(rec, keys) ==
    [k \in (DOMAIN rec) \cup keys |-> IF k \in DOMAIN rec THEN rec[k] ELSE 0]

\* Counter::increment on the AtomicU64 behind a handle (fetch_add wraps); a
\* noop handle drops the increment
\* (IncrementByName: the recorder keeps one counter per metric name)
IncrementByName(rec, handle, delta) ==
    IF handle = Noop THEN rec
    ELSE [k \in DOMAIN rec |-> IF k.name = handle.name THEN (rec[k] + delta) % U64
                                ELSE rec[k]]
Increment(rec, handle, delta) ==
    IF handle = Noop THEN rec
    ELSE [rec EXCEPT ![handle] = (@ + delta) % U64]

\* ------------------------------------------------------------ registration
\* emit_metrics, the pre-registration loop: counter_handles
\* (ByHandlesWhenOnline: without an online CPU no aggregate handle is registered)
ByHandlesWhenOnline(metric) ==
    LET ds == SelectSeq(metric.dimensions, LAMBDA d : d.kind = "By" /\ online # {})
    IN [i \in 1..Len(ds) |-> Key(Name(metric.meter), ds[i].labels, None)]
ByHandles(metric) ==
    LET ds == SelectSeq(metric.dimensions, LAMBDA d : d.kind = "By")
    IN [i \in 1..Len(ds) |-> Key(Name(metric.meter), ds[i].labels, None)]

\* emit_metrics, the pre-registration loop: counter_handles_by_cpu, each entry
\* vec![Counter::noop(); cpu_count] with the online CPUs' handles filled in
\* (ByCpuHandlesAll: a handle is registered for every possible CPU)
ByCpuHandlesAll(metric, cpu_ids) ==
    LET ds == SelectSeq(metric.dimensions, LAMBDA d : d.kind = "ByCpu")
    IN [i \in 1..Len(ds) |->
           [c \in CpuIds |-> Key(Name(metric.meter), ds[i].labels, c)]]
ByCpuHandles(metric, cpu_ids) ==
    LET ds == SelectSeq(metric.dimensions, LAMBDA d : d.kind = "ByCpu")
    IN [i \in 1..Len(ds) |->
           [c \in CpuIds |-> IF c \in Range(cpu_ids)
                             THEN Key(Name(metric.meter), ds[i].labels, c)
                             ELSE Noop]]

HandleKeys(by, by_cpu) ==
    (Range(by) \cup UNION {Range(by_cpu[j]) : j \in DOMAIN by_cpu}) \ {Noop}

\* the handles of a task: << "By", i, None >> is counter_handles[i] and
\* << "ByCpu", j, c >> is counter_handles_by_cpu[j][c]
HandleIds(by, by_cpu) ==
    {<< "By", i, None >> : i \in DOMAIN by}
        \cup {<< "ByCpu", j, c >> : j \in DOMAIN by_cpu, c \in CpuIds}

\* a history of a task's handles, every handle at v
Fresh(by, by_cpu, v) == [h \in HandleIds(by, by_cpu) |-> v]

\* the sequences of a sequence, one after the other
RECURSIVE Concat(_)
Concat(seqs) == IF seqs = << >> THEN << >> ELSE Head(seqs) \o Concat(Tail(seqs))

\* metrics::describe_counter!(name, unit, description), a call of the recorder
Describe(metric) == [op |-> "describe_counter", key |-> Name(metric.meter)]

\* the register_counter calls one dimension makes: one for By, one per online
\* CPU, in the order of cpus, for ByCpu
DimensionCalls(metric, d, cpu_ids) ==
    IF d.kind = "By"
    THEN << [op |-> "register_counter", key |-> Key(Name(metric.meter), d.labels, None)] >>
    ELSE [n \in 1..Len(cpu_ids) |->
             [op |-> "register_counter", key |-> Key(Name(metric.meter), d.labels, cpu_ids[n])]]

\* for dimension in &metric.dimensions: the register_counter calls, in order
\* (RegistrationsAggregatesFirst: the By dimensions first, then the ByCpu ones)
RegistrationsAggregatesFirst(metric, cpu_ids) ==
    LET by == SelectSeq(metric.dimensions, LAMBDA d : d.kind = "By")
        by_cpu == SelectSeq(metric.dimensions, LAMBDA d : d.kind = "ByCpu")
    IN Concat([i \in DOMAIN by |-> DimensionCalls(metric, by[i], cpu_ids)])
           \o Concat([i \in DOMAIN by_cpu |-> DimensionCalls(metric, by_cpu[i], cpu_ids)])
Registrations(metric, cpu_ids) ==
    Concat([i \in DOMAIN metric.dimensions |->
               DimensionCalls(metric, metric.dimensions[i], cpu_ids)])

\* handles[*cpu_id as usize] = handle: an online CPU id past the end of
\* vec![Counter::noop(); cpu_count] panics, after the handle's register_counter
IndexPanics(metric, cpu_ids) ==
    /\ \E i \in DOMAIN metric.dimensions : metric.dimensions[i].kind = "ByCpu"
    /\ \E n \in DOMAIN cpu_ids : cpu_ids[n] >= cpu_count
RegistrationsUntilPanic(metric, cpu_ids) ==
    LET cs == Registrations(metric, cpu_ids)
        bad == {i \in DOMAIN cs : cs[i].key.cpu >= cpu_count}
        first == CHOOSE i \in bad : \A j \in bad : i <= j
    IN SubSeq(cs, 1, first)

\* --------------------------------------------------------- the supervisor
\* run: select_next_some() yields the first future that ends; returning drops
\* FuturesUnordered and with it every other future
\* (DropNone: the other futures are left running, as detached tasks would be)
DropNone(t, state) == [pc EXCEPT ![t] = state]
DropRemaining(t, state) ==
    [u \in Tasks |-> IF u = t THEN state ELSE "cancelled"]

\* a guard held by a dropped future is dropped with it
\* (TerminateHolding: a guard outlives the future that held it)
TerminateHolding(t, state) ==
    /\ pc' = DropRemaining(t, state)
    /\ mutex' = mutex
Terminate(t, state) ==
    /\ pc' = DropRemaining(t, state)
    /\ mutex' = IF \E u \in Tasks : pc'[u] = "read" THEN mutex ELSE Unlocked

\* emit_metrics returns Err(err) and run returns it
\* (FailRetried: the error is noted and the task goes on to its next tick)
FailRetried(t, err) ==
    /\ task_result' = [task_result EXCEPT ![t] = err]
    /\ pc' = [pc EXCEPT ![t] = "tick"]
    /\ mutex' = IF mutex = t THEN Unlocked ELSE mutex
    /\ UNCHANGED << run_state, run_result >>
Fail(t, err) ==
    /\ task_result' = [task_result EXCEPT ![t] = err]
    /\ Terminate(t, "terminated")
    /\ run_state' = "returned"
    /\ run_result' = err

\* ------------------------------------------------------------ emit_metrics
\* let mut prev_values = vec![0u64; cpu_count]
\* (InitialPrevValuesTable: the table's content at start is taken as the baseline)
InitialPrevValuesTable(t) ==
    IF Index(metrics[t].meter) < Len(counters)
    THEN counters[Index(metrics[t].meter) + 1] ELSE Zeros
InitialPrevValues(t) == Zeros

\* time::interval(period): the first tick is due at once
\* (IntervalAfterPeriod: the first tick is due one period after the creation)
IntervalAfterPeriod(at) == at + Period
Interval(at) == at

\* up to the loop: describe the counter, create the interval, read the topology
\* (topology says how that ends), register the handles, zero prev_values
\* (StartRegisterFirst: the series are registered before the topology is read)
StartRegisterFirst(t, topology) ==
    /\ pc[t] = "created"
    /\ IF topology # "ok"
       THEN /\ Fail(t, topology)
            /\ calls' = [calls EXCEPT ![t] = << Describe(metrics[t]) >>
                                                 \o Registrations(metrics[t], Ascending(online))]
            /\ recorder' = Register(recorder,
                                    HandleKeys(ByHandles(metrics[t]),
                                               ByCpuHandles(metrics[t], Ascending(online))))
            /\ UNCHANGED << cpus, counter_handles, counter_handles_by_cpu,
                            prev_values, received, inc_count, interval, started_at >>
       ELSE IF IndexPanics(metrics[t], Ascending(online))
       THEN LET cs == RegistrationsUntilPanic(metrics[t], Ascending(online))
            IN /\ Terminate(t, "panicked")
               /\ run_state' = "panicked"
               /\ calls' = [calls EXCEPT ![t] = << Describe(metrics[t]) >> \o cs]
               /\ recorder' = Register(recorder, {cs[i].key : i \in DOMAIN cs})
               /\ UNCHANGED << cpus, counter_handles, counter_handles_by_cpu, prev_values,
                               received, inc_count, interval, started_at,
                               run_result, task_result >>
       ELSE LET cpu_ids == Ascending(online)
                by == ByHandles(metrics[t])
                by_cpu == ByCpuHandles(metrics[t], cpu_ids)
            IN /\ cpus' = [cpus EXCEPT ![t] = cpu_ids]
               /\ counter_handles' = [counter_handles EXCEPT ![t] = by]
               /\ counter_handles_by_cpu' = [counter_handles_by_cpu EXCEPT ![t] = by_cpu]
               /\ recorder' = Register(recorder, HandleKeys(by, by_cpu))
               /\ calls' = [calls EXCEPT ![t] = << Describe(metrics[t]) >>
                                                    \o Registrations(metrics[t], cpu_ids)]
               /\ prev_values' = [prev_values EXCEPT ![t] = InitialPrevValues(t)]
               /\ received' = [received EXCEPT ![t] = Fresh(by, by_cpu, None)]
               /\ inc_count' = [inc_count EXCEPT ![t] = Fresh(by, by_cpu, 0)]
               /\ interval' = [interval EXCEPT ![t] = Interval(now)]
               /\ started_at' = [started_at EXCEPT ![t] = now]
               /\ pc' = [pc EXCEPT ![t] = "tick"]
               /\ UNCHANGED << mutex, run_state, run_result, task_result >>
    /\ UNCHANGED << cpu_count, online, overflow_checks, counters, decreased, metrics,
                    counter_values, ticks, reads, snapshot_prev, last_delta,
                    now, tick_log, offline_at_tick, producer >>
Start(t, topology) ==
    /\ pc[t] = "created"
    /\ IF topology # "ok"
       THEN /\ Fail(t, topology)
            /\ calls' = [calls EXCEPT ![t] = << Describe(metrics[t]) >>]
            /\ UNCHANGED << recorder, cpus, counter_handles, counter_handles_by_cpu,
                            prev_values, received, inc_count, interval, started_at >>
       ELSE IF IndexPanics(metrics[t], Ascending(online))
       THEN LET cs == RegistrationsUntilPanic(metrics[t], Ascending(online))
            IN /\ Terminate(t, "panicked")
               /\ run_state' = "panicked"
               /\ calls' = [calls EXCEPT ![t] = << Describe(metrics[t]) >> \o cs]
               /\ recorder' = Register(recorder, {cs[i].key : i \in DOMAIN cs})
               /\ UNCHANGED << cpus, counter_handles, counter_handles_by_cpu, prev_values,
                               received, inc_count, interval, started_at,
                               run_result, task_result >>
       ELSE LET cpu_ids == Ascending(online)
                by == ByHandles(metrics[t])
                by_cpu == ByCpuHandles(metrics[t], cpu_ids)
            IN /\ cpus' = [cpus EXCEPT ![t] = cpu_ids]
               /\ counter_handles' = [counter_handles EXCEPT ![t] = by]
               /\ counter_handles_by_cpu' = [counter_handles_by_cpu EXCEPT ![t] = by_cpu]
               /\ recorder' = Register(recorder, HandleKeys(by, by_cpu))
               /\ calls' = [calls EXCEPT ![t] = << Describe(metrics[t]) >>
                                                    \o Registrations(metrics[t], cpu_ids)]
               /\ prev_values' = [prev_values EXCEPT ![t] = InitialPrevValues(t)]
               /\ received' = [received EXCEPT ![t] = Fresh(by, by_cpu, None)]
               /\ inc_count' = [inc_count EXCEPT ![t] = Fresh(by, by_cpu, 0)]
               /\ interval' = [interval EXCEPT ![t] = Interval(now)]
               /\ started_at' = [started_at EXCEPT ![t] = now]
               /\ pc' = [pc EXCEPT ![t] = "tick"]
               /\ UNCHANGED << mutex, run_state, run_result, task_result >>
    /\ UNCHANGED << cpu_count, online, overflow_checks, counters, decreased, metrics,
                    counter_values, ticks, reads, snapshot_prev, last_delta,
                    now, tick_log, offline_at_tick, producer >>

\* interval.tick().await completes, the clock not observed
Tick(t) ==
    /\ pc[t] = "tick"
    /\ ticks[t] < MaxTicks
    /\ pc' = [pc EXCEPT ![t] = "lock"]
    /\ UNCHANGED << cpu_count, online, overflow_checks, counters, decreased, mutex,
                    metrics, recorder, cpus, counter_handles, counter_handles_by_cpu,
                    prev_values, counter_values, run_state, run_result, task_result, ticks, reads,
                    snapshot_prev, last_delta, received, inc_count >>
    /\ UNCHANGED << timers, offline_at_tick, calls, producer >>

\* MissedTickBehavior::Burst, the default of time::interval: the next tick is
\* due one period after the time the last one was due, however late it fired
\* (Delay: one period after the time the last one fired)
Delay(timeout, at) == at + Period
Burst(timeout, at) == timeout + Period

\* interval.tick().await completes at the time now, not before the deadline
TickAt(t) ==
    /\ pc[t] = "tick"
    /\ Len(tick_log[t]) < MaxFired
    /\ now >= interval[t]
    /\ interval' = [interval EXCEPT ![t] = Burst(interval[t], now)]
    /\ tick_log' = [tick_log EXCEPT ![t] = Append(@, [due |-> interval[t], at |-> now])]
    /\ pc' = [pc EXCEPT ![t] = "lock"]
    /\ UNCHANGED << cpu_count, online, overflow_checks, counters, decreased, mutex,
                    metrics, recorder, cpus, counter_handles, counter_handles_by_cpu,
                    prev_values, counter_values, run_state, run_result, task_result, ticks, reads,
                    snapshot_prev, last_delta, received, inc_count, now, started_at,
                    offline_at_tick, calls, producer >>

\* the clock advances by one unit, whatever the tasks are doing
Advance ==
    /\ now < MaxTime
    /\ now' = now + 1
    /\ UNCHANGED << cpu_count, online, overflow_checks, counters, decreased, mutex,
                    metrics, recorder, pc, cpus, counter_handles, counter_handles_by_cpu,
                    prev_values, counter_values, run_state, run_result, task_result, ticks, reads,
                    snapshot_prev, last_delta, received, inc_count, interval, started_at,
                    tick_log, offline_at_tick, calls, producer >>

\* Mutex::lock: whether the guard can be taken
\* (CanLockAlways: the counters are shared without the mutex)
CanLockAlways(t) == TRUE
CanLock(t) == mutex = Unlocked

\* bpf_counters.lock().await completes
Lock(t) ==
    /\ pc[t] = "lock"
    /\ CanLock(t)
    /\ mutex' = t
    /\ pc' = [pc EXCEPT ![t] = "read"]
    /\ UNCHANGED << cpu_count, online, overflow_checks, counters, decreased, metrics,
                    recorder, cpus, counter_handles, counter_handles_by_cpu,
                    prev_values, counter_values, run_state, run_result, task_result, ticks, reads,
                    snapshot_prev, last_delta, received, inc_count >>
    /\ UNCHANGED << timers, offline_at_tick, calls, producer >>

\* guard.get(&metric.meter.index(), 0).map_err(Error::MapError)?, and the
\* guard dropped at the end of the block
\* (ReadHolding: the guard lives to the end of the loop body)
ReadHolding(t, io) ==
    /\ pc[t] = "read"
    /\ reads' = [reads EXCEPT ![t] = @ + 1]
    /\ LET got == Get(Index(metrics[t].meter), io)
       IN IF got.ok
          THEN /\ counter_values' = [counter_values EXCEPT ![t] = got.values]
               /\ snapshot_prev' = [snapshot_prev EXCEPT ![t] =
                                       IF ticks[t] = 0 THEN Zeros ELSE counter_values[t]]
               /\ pc' = [pc EXCEPT ![t] = "emit"]
               /\ mutex' = mutex
               /\ UNCHANGED << run_state, run_result, task_result >>
          ELSE /\ Fail(t, got.err)
               /\ UNCHANGED << counter_values, snapshot_prev >>
    /\ UNCHANGED << cpu_count, online, overflow_checks, counters, decreased, metrics,
                    recorder, cpus, counter_handles, counter_handles_by_cpu,
                    prev_values, ticks, last_delta, received, inc_count >>
    /\ UNCHANGED << timers, offline_at_tick, calls, producer >>
Read(t, io) ==
    /\ pc[t] = "read"
    /\ reads' = [reads EXCEPT ![t] = @ + 1]
    /\ LET got == Get(Index(metrics[t].meter), io)
       IN IF got.ok
          THEN /\ counter_values' = [counter_values EXCEPT ![t] = got.values]
               /\ snapshot_prev' = [snapshot_prev EXCEPT ![t] =
                                       IF ticks[t] = 0 THEN Zeros ELSE counter_values[t]]
               /\ pc' = [pc EXCEPT ![t] = "emit"]
               /\ mutex' = Unlocked
               /\ UNCHANGED << run_state, run_result, task_result >>
          ELSE /\ Fail(t, got.err)
               /\ UNCHANGED << counter_values, snapshot_prev >>
    /\ UNCHANGED << cpu_count, online, overflow_checks, counters, decreased, metrics,
                    recorder, cpus, counter_handles, counter_handles_by_cpu,
                    prev_values, ticks, last_delta, received, inc_count >>
    /\ UNCHANGED << timers, offline_at_tick, calls, producer >>

\* handle.increment(delta) through handle h of task t, which refers to series
\* key: the series accumulates, and the handle's histories record the call
HandleIncrement(sk, h, key, delta) ==
    [rec |-> Increment(sk.rec, key, delta),
     recv |-> [sk.recv EXCEPT ![h] = delta],
     cnt |-> [sk.cnt EXCEPT ![h] = @ + 1]]

\* for handles in &mut counter_handles_by_cpu { handles[cpu_id].increment(delta) }
\* (IncrementByCpuNonZero: a delta of zero is not emitted)
RECURSIVE IncrementByCpuNonZero(_, _, _, _, _)
IncrementByCpuNonZero(sk, by_cpu, j, cpu_id, delta) ==
    IF j > Len(by_cpu) \/ delta = 0 THEN sk
    ELSE IncrementByCpuNonZero(HandleIncrement(sk, << "ByCpu", j, cpu_id >>,
                                               by_cpu[j][cpu_id], delta),
                               by_cpu, j + 1, cpu_id, delta)
RECURSIVE IncrementByCpu(_, _, _, _, _)
IncrementByCpu(sk, by_cpu, j, cpu_id, delta) ==
    IF j > Len(by_cpu) THEN sk
    ELSE IncrementByCpu(HandleIncrement(sk, << "ByCpu", j, cpu_id >>, by_cpu[j][cpu_id], delta),
                        by_cpu, j + 1, cpu_id, delta)

\* for handle in &counter_handles { handle.increment(delta_sum) }
\* (IncrementAggregatesNonZero: a delta_sum of zero is not emitted)
RECURSIVE IncrementAggregatesNonZero(_, _, _, _)
IncrementAggregatesNonZero(sk, by, i, delta_sum) ==
    IF i > Len(by) \/ delta_sum = 0 THEN sk
    ELSE IncrementAggregatesNonZero(HandleIncrement(sk, << "By", i, None >>, by[i], delta_sum),
                                    by, i + 1, delta_sum)
RECURSIVE IncrementAggregates(_, _, _, _)
IncrementAggregates(sk, by, i, delta_sum) ==
    IF i > Len(by) THEN sk
    ELSE IncrementAggregates(HandleIncrement(sk, << "By", i, None >>, by[i], delta_sum),
                             by, i + 1, delta_sum)

\* prev_values[cpu_id] = value
\* (StorePrevForgotten: the state for the next period is not stored)
\* (StorePrevDelta: the delta is stored in place of the value)
StorePrevDelta(prev, cpu_id, value) == [prev EXCEPT ![cpu_id] = value - @]
StorePrevForgotten(prev, cpu_id, value) == prev
StorePrev(prev, cpu_id, value) == [prev EXCEPT ![cpu_id] = value]

\* one pass of the body of "for cpu_id in &cpus", from loop state st; an
\* overflow of value - prev_value or of delta_sum += delta panics in a build
\* with overflow checks and wraps in one without
\* (EmitCpuRunningSum: the per-CPU handles are incremented by delta_sum)
EmitCpuRunningSum(t, st, cpu_id) ==
    IF cpu_id \notin DOMAIN counter_values[t] THEN st
    ELSE LET value == counter_values[t][cpu_id]
             delta == Sub(value, st.prev[cpu_id])
             sum == Add(st.sum, delta.val)
         IN IF overflow_checks /\ (~delta.ok \/ ~sum.ok)
            THEN [st EXCEPT !.panicked = TRUE]
            ELSE [sum |-> sum.val,
                  prev |-> StorePrev(st.prev, cpu_id, value),
                  deltas |-> [st.deltas EXCEPT ![cpu_id] = delta.val],
                  sk |-> IncrementByCpu(st.sk, counter_handles_by_cpu[t], 1, cpu_id, sum.val),
                  panicked |-> FALSE]
\* (EmitCpuIfOnline: a CPU that is offline at the tick is skipped)
EmitCpuIfOnline(t, st, cpu_id) ==
    IF cpu_id \notin DOMAIN counter_values[t] \/ cpu_id \notin online THEN st
    ELSE LET value == counter_values[t][cpu_id]
             delta == Sub(value, st.prev[cpu_id])
             sum == Add(st.sum, delta.val)
         IN IF overflow_checks /\ (~delta.ok \/ ~sum.ok)
            THEN [st EXCEPT !.panicked = TRUE]
            ELSE [sum |-> sum.val,
                  prev |-> StorePrev(st.prev, cpu_id, value),
                  deltas |-> [st.deltas EXCEPT ![cpu_id] = delta.val],
                  sk |-> IncrementByCpu(st.sk, counter_handles_by_cpu[t], 1, cpu_id, delta.val),
                  panicked |-> FALSE]
\* (EmitCpuUnwrap: a CPU without a slot in the values read is a panic)
EmitCpuUnwrap(t, st, cpu_id) ==
    IF cpu_id \notin DOMAIN counter_values[t] THEN [st EXCEPT !.panicked = TRUE]
    ELSE LET value == counter_values[t][cpu_id]
             delta == Sub(value, st.prev[cpu_id])
             sum == Add(st.sum, delta.val)
         IN IF overflow_checks /\ (~delta.ok \/ ~sum.ok)
            THEN [st EXCEPT !.panicked = TRUE]
            ELSE [sum |-> sum.val,
                  prev |-> StorePrev(st.prev, cpu_id, value),
                  deltas |-> [st.deltas EXCEPT ![cpu_id] = delta.val],
                  sk |-> IncrementByCpu(st.sk, counter_handles_by_cpu[t], 1, cpu_id, delta.val),
                  panicked |-> FALSE]
EmitCpu(t, st, cpu_id) ==
    IF cpu_id \notin DOMAIN counter_values[t] THEN st
    ELSE LET value == counter_values[t][cpu_id]
             delta == Sub(value, st.prev[cpu_id])
             sum == Add(st.sum, delta.val)
         IN IF overflow_checks /\ (~delta.ok \/ ~sum.ok)
            THEN [st EXCEPT !.panicked = TRUE]
            ELSE [sum |-> sum.val,
                  prev |-> StorePrev(st.prev, cpu_id, value),
                  deltas |-> [st.deltas EXCEPT ![cpu_id] = delta.val],
                  sk |-> IncrementByCpu(st.sk, counter_handles_by_cpu[t], 1, cpu_id, delta.val),
                  panicked |-> FALSE]

\* for cpu_id in &cpus, from the i-th CPU of the list on
RECURSIVE EmitCpus(_, _, _)
EmitCpus(t, st, i) ==
    IF i > Len(cpus[t]) \/ st.panicked THEN st
    ELSE EmitCpus(t, EmitCpu(t, st, cpus[t][i]), i + 1)

\* the loop body after the read: let mut delta_sum = 0, the loop over the
\* CPUs, then the aggregate increments; a panic unwinds through run
Emit(t) ==
    /\ pc[t] = "emit"
    /\ LET st == EmitCpus(t, [sum |-> 0,
                              prev |-> prev_values[t],
                              deltas |-> [c \in CpuIds |-> None],
                              sk |-> [rec |-> recorder,
                                      recv |-> [h \in DOMAIN received[t] |-> None],
                                      cnt |-> inc_count[t]],
                              panicked |-> FALSE], 1)
           sk == IF st.panicked THEN st.sk
                 ELSE IncrementAggregates(st.sk, counter_handles[t], 1, st.sum)
       IN /\ prev_values' = [prev_values EXCEPT ![t] = st.prev]
          /\ last_delta' = [last_delta EXCEPT ![t] = st.deltas]
          /\ recorder' = sk.rec
          /\ received' = [received EXCEPT ![t] = sk.recv]
          /\ inc_count' = [inc_count EXCEPT ![t] = sk.cnt]
          /\ offline_at_tick' = [offline_at_tick EXCEPT ![t] = Range(cpus[t]) \ online]
          /\ IF st.panicked
             THEN /\ Terminate(t, "panicked")
                  /\ run_state' = "panicked"
                  /\ UNCHANGED << ticks, run_result, task_result >>
             ELSE /\ pc' = [pc EXCEPT ![t] = "tick"]
                  /\ ticks' = [ticks EXCEPT ![t] = @ + 1]
                  /\ UNCHANGED << mutex, run_state, run_result, task_result >>
    /\ UNCHANGED << cpu_count, online, overflow_checks, counters, decreased, metrics,
                    cpus, counter_handles, counter_handles_by_cpu, counter_values,
                    reads, snapshot_prev >>
    /\ UNCHANGED << timers, calls, producer >>

\* ------------------------------------------------------ the specifications
MaxDimensions == 2  \* a Metric holds at most MaxDimensions dimensions

DimensionLists == UNION {[1..n -> Dimension] : n \in 0..MaxDimensions}
Metric == [meter : Meters, dimensions : DimensionLists]

\* EbpfMetrics { counters, metrics, period } as run receives it, on a machine
\* whose possible CPU ids are one of possibles, of which the CPUs of online are
\* online, over a table of one of entries rows
InitOf(metric_lists, possibles, entries) ==
    /\ \E possible \in possibles : /\ cpu_count = Cardinality(possible)
                                   /\ online \in SUBSET possible
    /\ overflow_checks \in BOOLEAN
    /\ \E len \in entries : counters = [i \in 1..len |-> Zeros]
    /\ producer = [added |-> counters, calls |-> 0, state |-> "running"]
    /\ decreased = FALSE
    /\ mutex = Unlocked
    /\ metrics \in metric_lists
    /\ recorder = << >>
    /\ pc = [t \in Tasks |-> "created"]
    /\ cpus = [t \in Tasks |-> << >>]
    /\ counter_handles = [t \in Tasks |-> << >>]
    /\ counter_handles_by_cpu = [t \in Tasks |-> << >>]
    /\ prev_values = [t \in Tasks |-> << >>]
    /\ counter_values = [t \in Tasks |-> << >>]
    /\ run_state = "running"
    /\ run_result = NoError
    /\ task_result = [t \in Tasks |-> NoError]
    /\ ticks = [t \in Tasks |-> 0]
    /\ reads = [t \in Tasks |-> 0]
    /\ snapshot_prev = [t \in Tasks |-> << >>]
    /\ last_delta = [t \in Tasks |-> << >>]
    /\ received = [t \in Tasks |-> Fresh(<< >>, << >>, None)]
    /\ inc_count = [t \in Tasks |-> Fresh(<< >>, << >>, 0)]
    /\ now = 0
    /\ interval = [t \in Tasks |-> None]
    /\ started_at = [t \in Tasks |-> None]
    /\ tick_log = [t \in Tasks |-> << >>]
    /\ offline_at_tick = [t \in Tasks |-> {}]
    /\ calls = [t \in Tasks |-> << >>]

\* the possible CPUs are 0..nr_cpus()-1 and the table is the mock's
InitWith(metric_lists, cpu_counts) ==
    InitOf(metric_lists, {0..(n - 1) : n \in cpu_counts}, {0, MockEntries})

Next ==
    \/ \E t \in Tasks : \E topology \in {"ok", "InvalidPossibleCpu", "InvalidOnlineCpu"} :
           Start(t, topology)
    \/ \E t \in Tasks : Tick(t)
    \/ \E t \in Tasks : Lock(t)
    \/ \E t \in Tasks : \E io \in BOOLEAN : Read(t, io)
    \/ \E t \in Tasks : Emit(t)
    \/ \E index \in 0..(Len(counters) - 1) : \E values \in [CpuIds -> 0..MaxValue] :
           Set(index, values)

\* one Emission Task, every metric of at most MaxDimensions dimensions
Init == InitWith({<< m >> : m \in Metric}, 1..MaxCpus)
Spec == Init /\ [][Next]_vars

\* run over MaxMetrics metrics on a machine of one CPU, every metric with an
\* aggregate and a per-CPU dimension; two metrics may name the same meter
RunMetric == [meter : Meters, dimensions : {<< By("none"), ByCpu("none") >>}]
InitRun == InitWith([1..MaxMetrics -> RunMetric], {1})
SpecRun == InitRun /\ [][Next]_vars

\* one Emission Task on a machine of MaxCpus possible CPUs whose ids may be
\* sparse: nr_cpus() counts the possible CPUs, so an online CPU id can lie past
\* the per-CPU values, which hold nr_cpus() slots
SparseMetric ==
    [meter : Meters,
     dimensions : {<< By("none") >>, << By("none"), By("hostname") >>,
                   << By("none"), ByCpu("hostname") >>}]
InitSparse ==
    InitOf({<< m >> : m \in SparseMetric},
           {S \in SUBSET (0..MaxCpus) : Cardinality(S) = MaxCpus}, {0, MockEntries})
SpecSparse == InitSparse /\ [][Next]_vars

\* run under a fair executor: FuturesUnordered polls every future that is
\* ready, the interval of every task keeps firing, and a task waiting for the
\* mutex gets it at one of the moments it is free
FairRun ==
    \A t \in 1..MaxMetrics :
        /\ WF_vars(\E topology \in {"ok", "InvalidPossibleCpu", "InvalidOnlineCpu"} :
                       Start(t, topology))
        /\ WF_vars(Tick(t))
        /\ SF_vars(Lock(t))
        /\ WF_vars(\E io \in BOOLEAN : Read(t, io))
        /\ WF_vars(Emit(t))
SpecFair == InitRun /\ [][Next]_vars /\ FairRun

\* the eBPF side alone: programs on every CPU call counter() on the all-zero
\* COUNTERS map
InitProducer ==
    InitOf({<< >>}, {0..(n - 1) : n \in 1..MaxCpus},
           {BPF_COUNTERS_MAX_ENTRIES})
NextProducer ==
    \E cpu \in CpuIds : \E c \in Meters : \E value \in ProducerValues :
        counter(cpu, c, value)
SpecProducer == InitProducer /\ [][NextProducer]_vars

\* one Emission Task on a machine of one CPU under the clock: time passes at
\* any moment and interval.tick() completes only when it is due
TimeMetric == [meter : {0}, dimensions : {<< By("none") >>}]
InitTime == InitWith({<< m >> : m \in TimeMetric}, {1})
NextTime ==
    \/ \E t \in Tasks : \E topology \in {"ok", "InvalidPossibleCpu", "InvalidOnlineCpu"} :
           Start(t, topology)
    \/ \E t \in Tasks : TickAt(t)
    \/ \E t \in Tasks : Lock(t)
    \/ \E t \in Tasks : \E io \in BOOLEAN : Read(t, io)
    \/ \E t \in Tasks : Emit(t)
    \/ \E index \in 0..(Len(counters) - 1) : \E values \in [CpuIds -> 0..MaxValue] :
           Set(index, values)
    \/ Advance
SpecTime == InitTime /\ [][NextTime]_vars

\* CPU hotplug: the set online_cpus() reports changes
SetOnline(S) ==
    /\ S # online
    /\ online' = S
    /\ UNCHANGED << cpu_count, overflow_checks, counters, decreased, mutex, metrics,
                    recorder, pc, cpus, counter_handles, counter_handles_by_cpu,
                    prev_values, counter_values, run_state, run_result, task_result,
                    ticks, reads, snapshot_prev, last_delta, received, inc_count,
                    timers, offline_at_tick, calls, producer >>

\* one Emission Task with an aggregate and a per-CPU dimension on a machine of
\* MaxCpus possible CPUs that go offline and come online at any moment
CpuMetric == [meter : {0}, dimensions : {<< By("none"), ByCpu("hostname") >>}]
InitCpu == InitWith({<< m >> : m \in CpuMetric}, {MaxCpus})
NextCpu ==
    \/ Next
    \/ \E S \in SUBSET CpuIds : SetOnline(S)
SpecCpu == InitCpu /\ [][NextCpu]_vars

\* ------------------------------------------------------------ the claims
RECURSIVE SumOver(_, _)
SumOver(f, S) ==
    IF S = {} THEN 0
    ELSE LET c == CHOOSE x \in S : TRUE IN f[c] + SumOver(f, S \ {c})

\* the last tick of t is completed and t has not read again since
LastTickDone(t) == ticks[t] >= 1 /\ pc[t] \in {"tick", "lock", "read"}

\* the dimensions of t's metric carry pairwise distinct label sets
DistinctLabels(t) ==
    LET ds == metrics[t].dimensions
    IN \A i, j \in DOMAIN ds : i # j => ds[i].labels # ds[j].labels

\* C1: for a task whose dimensions carry pairwise distinct label sets, over a
\* table whose values never decrease: after every completed tick, every
\* per-CPU series of a CPU captured at start holds that CPU's value of the
\* tick's snapshot, and every aggregate series holds the sum of the snapshot
\* over the captured CPUs.
C1_AccumulatedIsSnapshot ==
    \A t \in Tasks :
        (DistinctLabels(t) /\ ~decreased /\ LastTickDone(t)) =>
            /\ \A j \in DOMAIN counter_handles_by_cpu[t] : \A c \in Range(cpus[t]) :
                   recorder[counter_handles_by_cpu[t][j][c]] = counter_values[t][c]
            /\ \A i \in DOMAIN counter_handles[t] :
                   recorder[counter_handles[t][i]] = SumOver(counter_values[t], Range(cpus[t]))

\* C1, witness: two ticks done over two CPUs, the second snapshot (1, 2) after
\* a first one that was not zero, with an aggregate and a per-CPU series
C1_Witness ==
    \E t \in Tasks :
        /\ DistinctLabels(t) /\ ~decreased /\ LastTickDone(t)
        /\ ticks[t] = 2 /\ Len(cpus[t]) = 2
        /\ counter_handles[t] # << >> /\ counter_handles_by_cpu[t] # << >>
        /\ counter_values[t] = (0 :> 1) @@ (1 :> 2)
        /\ snapshot_prev[t] # Zeros
        /\ recorder[counter_handles[t][1]] = 3

\* C2: on every completed tick, the delta computed for a CPU captured at start
\* is its value in the tick's snapshot minus its value in the snapshot of the
\* tick before (all zero before the first tick), in u64 arithmetic.
C2_DeltaIsDifference ==
    \A t \in Tasks :
        LastTickDone(t) =>
            \A c \in Range(cpus[t]) :
                last_delta[t][c] = (counter_values[t][c] - snapshot_prev[t][c] + U64) % U64

\* C2, witness: a second tick whose delta is 1 = 2 - 1
C2_Witness ==
    \E t \in Tasks : \E c \in Range(cpus[t]) :
        /\ LastTickDone(t) /\ ticks[t] = 2
        /\ snapshot_prev[t][c] = 1 /\ counter_values[t][c] = 2 /\ last_delta[t][c] = 1

\* the sum of f over S in u64 arithmetic
RECURSIVE SumU64(_, _)
SumU64(f, S) ==
    IF S = {} THEN 0
    ELSE LET c == CHOOSE x \in S : TRUE IN (f[c] + SumU64(f, S \ {c})) % U64

\* the handles of t that refer to a series: every aggregate handle, and the
\* per-CPU handles of the CPUs captured at start
ByIds(t) == {<< "By", i, None >> : i \in DOMAIN counter_handles[t]}
ByCpuIds(t) ==
    {<< "ByCpu", j, c >> : j \in DOMAIN counter_handles_by_cpu[t], c \in Range(cpus[t])}

\* C3: on every completed tick every aggregate handle is incremented by the
\* sum (in u64 arithmetic) of the tick's deltas over the CPUs captured at
\* start, a sum of 0 included, with or without a per-CPU dimension beside it.
C3_AggregateIsSumOfDeltas ==
    \A t \in Tasks :
        LastTickDone(t) =>
            \A h \in ByIds(t) :
                /\ received[t][h] = SumU64(last_delta[t], Range(cpus[t]))
                /\ inc_count[t][h] = ticks[t]

\* C3, witness: a metric of aggregate dimensions only whose second tick, over
\* two CPUs and after a snapshot that was not zero, sums to 0
C3_Witness ==
    \E t \in Tasks :
        /\ LastTickDone(t) /\ ticks[t] = 2 /\ Len(cpus[t]) = 2
        /\ counter_handles_by_cpu[t] = << >> /\ Len(counter_handles[t]) = 2
        /\ snapshot_prev[t] = (0 :> 1) @@ (1 :> 2)
        /\ \A h \in ByIds(t) : received[t][h] = 0 /\ inc_count[t][h] = 2

\* C4: on every completed tick a per-CPU handle of a captured CPU c receives
\* the delta of c, a per-CPU handle of any other CPU receives nothing, and an
\* aggregate handle receives the sum of the deltas.
C4_EachHandleItsOwnValue ==
    \A t \in Tasks :
        LastTickDone(t) =>
            /\ \A j \in DOMAIN counter_handles_by_cpu[t] : \A c \in CpuIds :
                   received[t][<< "ByCpu", j, c >>] =
                       IF c \in Range(cpus[t]) THEN last_delta[t][c] ELSE None
            /\ \A h \in ByIds(t) :
                   received[t][h] = SumU64(last_delta[t], Range(cpus[t]))

\* C4, witness: deltas 1 and 2 and the aggregate 3, each at its own handle
C4_Witness ==
    \E t \in Tasks :
        /\ LastTickDone(t) /\ Len(cpus[t]) = 2
        /\ counter_handles[t] # << >> /\ counter_handles_by_cpu[t] # << >>
        /\ received[t][<< "ByCpu", 1, 0 >>] = 1
        /\ received[t][<< "ByCpu", 1, 1 >>] = 2
        /\ received[t][<< "By", 1, None >>] = 3

\* C5 as claimed: on the first tick every handle is incremented by 0, whatever
\* the table holds.
C5_FirstTickZero ==
    \A t \in Tasks :
        (LastTickDone(t) /\ ticks[t] = 1) =>
            \A h \in ByIds(t) \cup ByCpuIds(t) : received[t][h] = 0

\* C5, amended: on the first tick a per-CPU handle is incremented by its CPU's
\* value in the first snapshot and an aggregate handle by the sum of those
\* values; by 0 when the snapshot read on that tick is zero.
C5_FirstTickIsSnapshot ==
    \A t \in Tasks :
        (LastTickDone(t) /\ ticks[t] = 1) =>
            /\ \A j \in DOMAIN counter_handles_by_cpu[t] : \A c \in Range(cpus[t]) :
                   received[t][<< "ByCpu", j, c >>] = counter_values[t][c]
            /\ \A h \in ByIds(t) :
                   received[t][h] = SumOver(counter_values[t], Range(cpus[t]))

\* C5, witness: a first tick over a table that already holds (1, 2)
C5_Witness ==
    \E t \in Tasks :
        /\ LastTickDone(t) /\ ticks[t] = 1
        /\ counter_values[t] = (0 :> 1) @@ (1 :> 2)
        /\ counter_handles[t] # << >> /\ counter_handles_by_cpu[t] # << >>
        /\ received[t][<< "By", 1, None >>] = 3
        /\ received[t][<< "ByCpu", 1, 1 >>] = 2

\* C6: the task that ends makes run return, with that task's error, and once
\* run has returned no task reads the table or increments a handle.
C6_FailFast ==
    /\ [](\A t \in Tasks :
            pc[t] = "terminated" =>
                /\ run_state = "returned"
                /\ run_result = task_result[t] /\ run_result # NoError)
    /\ [](run_state = "returned" => \E t \in Tasks : pc[t] = "terminated")
    /\ [][run_state = "returned" =>
              (reads' = reads /\ recorder' = recorder /\ inc_count' = inc_count)]_vars

\* C6, witness: a task fails on a later tick and the other, which had
\* emitted, is cancelled
C6_Witness ==
    \E t, u \in Tasks :
        /\ run_state = "returned" /\ run_result = "KeyNotFound"
        /\ pc[t] = "terminated" /\ ticks[t] >= 1
        /\ pc[u] = "cancelled" /\ ticks[u] >= 1

\* C7: at most one task is inside its snapshot read (holds the guard between
\* lock() and the end of the block) at any moment.
C7_OneReaderAtATime ==
    /\ Cardinality({t \in Tasks : pc[t] = "read"}) <= 1
    /\ \A t \in Tasks : pc[t] = "read" => mutex = t

\* C7, witness: one task reads while another waits for the lock
C7_Witness ==
    \E t, u \in Tasks : pc[t] = "read" /\ mutex = t /\ pc[u] = "lock"

\* the meter of t indexes past the table
BadIndex(t) == Index(metrics[t].meter) >= Len(counters)

\* the first read of such a task fails with OutOfBounds and run returns it
FirstReadFails(t) ==
    reads[t] >= 1 =>
        /\ reads[t] = 1 /\ pc[t] = "terminated" /\ task_result[t] = "OutOfBounds"
        /\ run_state = "returned" /\ run_result = "OutOfBounds"

\* C8 as claimed: when a task whose meter indexes past the table has read, run
\* has returned the error and no handle at all has ever been incremented.
C8_NoHandleEverIncremented ==
    \A t \in Tasks :
        BadIndex(t) =>
            /\ FirstReadFails(t)
            /\ reads[t] >= 1 =>
                   \A u \in Tasks : \A h \in DOMAIN inc_count[u] : inc_count[u][h] = 0

\* C8, amended: ... and no handle of that task has ever been incremented
\* (handles of the other tasks of the run may have been).
C8_OwnHandlesNeverIncremented ==
    \A t \in Tasks :
        BadIndex(t) =>
            /\ FirstReadFails(t)
            /\ ticks[t] = 0
            /\ \A h \in DOMAIN inc_count[t] : inc_count[t][h] = 0

\* C8, witness: the task has registered its handles and failed its first
\* read, after another task of the run has emitted
C8_Witness ==
    \E t, u \in Tasks :
        /\ BadIndex(t) /\ reads[t] = 1 /\ task_result[t] = "OutOfBounds"
        /\ DOMAIN inc_count[t] # {}
        /\ u # t /\ ticks[u] >= 1

\* C9: a task whose read fails, on whatever tick, terminates with that error,
\* which run returns, and from then on it neither reads nor increments.
C9_ReadFailureIsFatal ==
    /\ [](\A t \in Tasks :
            task_result[t] \in {"OutOfBounds", "KeyNotFound"} =>
                pc[t] = "terminated" /\ run_result = task_result[t])
    /\ [][\A t \in Tasks :
            task_result[t] # NoError =>
                /\ reads'[t] = reads[t]
                /\ inc_count'[t] = inc_count[t]
                /\ task_result'[t] = task_result[t]]_vars

\* C9, witness: the read of the second tick fails
C9_Witness ==
    \E t \in Tasks :
        task_result[t] = "KeyNotFound" /\ ticks[t] = 1 /\ reads[t] = 2

\* C10: every tick of a task updates all of the task's handles or none: all
\* handles that refer to a series have received the same number of increments.
C10_NoPartialEmission ==
    \A t \in Tasks :
        \A g, h \in ByIds(t) \cup ByCpuIds(t) : inc_count[t][g] = inc_count[t][h]

\* the states of the loop of emit_metrics
Ticking == {"tick", "lock", "read", "emit"}

\* C11: a task and run end only with an error, never with a success value, and
\* a task that has entered its loop stays in it as long as no read has failed
\* (and no other task has made run return).
C11_NoSuccessTerminal ==
    /\ run_state = "returned" => run_result # NoError
    /\ \A t \in Tasks :
           /\ pc[t] = "terminated" => task_result[t] # NoError
           /\ (pc[t] # "created" /\ run_result = NoError) => pc[t] \in Ticking

\* tick n of the log fired at the time it was due
OnTime(log, n) == log[n].at = log[n].due

\* C12: the first tick is due at the moment the task enters its loop, no tick
\* fires before it is due, and after a tick that fired on time the next one
\* fires no earlier than one period later, exactly one period later when it
\* fires on time too.
C12_TicksOnePeriodApart ==
    \A t \in Tasks :
        LET log == tick_log[t]
        IN /\ (pc[t] = "tick" /\ log = << >>) => interval[t] = started_at[t]
           /\ log # << >> => log[1].due = started_at[t]
           /\ \A n \in DOMAIN log : log[n].at >= log[n].due
           /\ \A n \in 1..(Len(log) - 1) :
                  OnTime(log, n) =>
                      /\ log[n + 1].at >= log[n].at + Period
                      /\ OnTime(log, n + 1) => log[n + 1].at = log[n].at + Period

\* C12, witness: three ticks, at the start and one and two periods later
C12_Witness ==
    \E t \in Tasks :
        /\ Len(tick_log[t]) = 3 /\ ticks[t] = 3
        /\ \A n \in 1..3 : tick_log[t][n].at = started_at[t] + (n - 1) * Period

\* C13 as claimed: once a tick has been delayed by more than one period, every
\* tick fires at least one period after the tick before it.
C13_NoCatchUpTicks ==
    \A t \in Tasks :
        LET log == tick_log[t]
        IN \A n \in 1..(Len(log) - 1) :
               (\E k \in 1..n : log[k].at > log[k].due + Period) =>
                   log[n + 1].at >= log[n].at + Period

\* C13, amended: the ticks stay on the schedule start + n * period: no tick
\* fires before its place in the schedule, and a tick that fired a period or
\* more late leaves the next one already due, so that one fires with no wait.
C13_TicksOnSchedule ==
    \A t \in Tasks :
        LET log == tick_log[t]
        IN /\ \A n \in DOMAIN log :
                  /\ log[n].due = started_at[t] + (n - 1) * Period
                  /\ log[n].at >= log[n].due
           /\ (log # << >> /\ pc[t] = "tick" /\ log[Len(log)].at >= log[Len(log)].due + Period) =>
                  interval[t] <= log[Len(log)].at

\* C13, witness: the second tick fires more than a period late and the third
\* fires at the same instant
C13_Witness ==
    \E t \in Tasks :
        LET log == tick_log[t]
        IN /\ Len(log) = 3
           /\ log[2].at > log[2].due + Period
           /\ log[3].at = log[2].at

\* C14: a cancelled task does not hold the mutex, and every handle of it that
\* refers to a series has been incremented once per completed tick: no tick is
\* left partially applied.
C14_CancelledIsClean ==
    \A t \in Tasks :
        pc[t] = "cancelled" =>
            /\ mutex # t
            /\ \A h \in ByIds(t) \cup ByCpuIds(t) : inc_count[t][h] = ticks[t]

\* C14, witness: a task is cancelled after a completed tick, not having read
\* again, while the other task ended holding or waiting for nothing
C14_Witness ==
    \E t, u \in Tasks :
        /\ pc[t] = "cancelled" /\ ticks[t] >= 1 /\ reads[t] = ticks[t]
        /\ ByIds(t) # {} /\ ByCpuIds(t) # {}
        /\ pc[u] \in {"terminated", "panicked"} /\ mutex = Unlocked

\* t has read the topology and registered its handles
Started(t) == started_at[t] # None

\* the per-CPU series the metric of t yields over the CPUs of S
PerCpuSeries(t, S) ==
    {Key(Name(metrics[t].meter), metrics[t].dimensions[i].labels, c) :
        i \in {n \in DOMAIN metrics[t].dimensions : metrics[t].dimensions[n].kind = "ByCpu"},
        c \in S}

\* C15: the per-CPU series of a task are those of the CPUs online when it
\* started, one per per-CPU dimension and such CPU, labelled with the
\* dimension's labels and the CPU id; once the task is in its loop no series is
\* registered and no handle changes, whichever CPUs come online.
C15_PerCpuSeriesFixedAtStart ==
    /\ [](\A t \in Tasks :
            Started(t) =>
                /\ {k \in DOMAIN recorder : k.cpu # None} = PerCpuSeries(t, Range(cpus[t]))
                /\ \A j \in DOMAIN counter_handles_by_cpu[t] : \A c \in CpuIds :
                       c \notin Range(cpus[t]) => counter_handles_by_cpu[t][j][c] = Noop)
    /\ [][\A t \in Tasks :
            /\ (~Started(t) /\ Started(t)') => Range(cpus'[t]) = online
            /\ Started(t) =>
                   /\ DOMAIN recorder' = DOMAIN recorder
                   /\ cpus'[t] = cpus[t]
                   /\ counter_handles_by_cpu'[t] = counter_handles_by_cpu[t]]_vars

\* C15, witness: a CPU came online after the task had started with the other
\* one; ticks have passed and the new CPU has no series
C15_Witness ==
    \E t \in Tasks : \E c \in online :
        /\ Started(t) /\ ticks[t] = 2
        /\ Range(cpus[t]) # {} /\ c \notin Range(cpus[t])
        /\ PerCpuSeries(t, {c}) # {}
        /\ PerCpuSeries(t, {c}) \cap DOMAIN recorder = {}

\* C16 as claimed: on a tick, no per-CPU handle of a captured CPU that is
\* offline at that tick is incremented.
C16_OfflineCpuNotIncremented ==
    \A t \in Tasks :
        LastTickDone(t) =>
            \A c \in offline_at_tick[t] : \A j \in DOMAIN counter_handles_by_cpu[t] :
                received[t][<< "ByCpu", j, c >>] = None

\* C16, amended: a captured CPU that is offline at a tick keeps its handle,
\* and the handle is incremented on that tick as on any other, by the CPU's
\* delta in the snapshot (0 when the table's value for the CPU has not moved).
C16_OfflineCpuStillIncremented ==
    \A t \in Tasks :
        LastTickDone(t) =>
            \A c \in offline_at_tick[t] : \A j \in DOMAIN counter_handles_by_cpu[t] :
                /\ counter_handles_by_cpu[t][j][c] \in PerCpuSeries(t, {c})
                /\ inc_count[t][<< "ByCpu", j, c >>] = ticks[t]
                /\ received[t][<< "ByCpu", j, c >>] =
                       (counter_values[t][c] - snapshot_prev[t][c] + U64) % U64

\* C16, witness: CPU 1 was offline at the second tick, its table value had not
\* moved, and its handle has its second increment, of 0
C16_Witness ==
    \E t \in Tasks :
        /\ LastTickDone(t) /\ ticks[t] = 2
        /\ 1 \in offline_at_tick[t]
        /\ counter_values[t][1] = 1 /\ snapshot_prev[t][1] = 1
        /\ inc_count[t][<< "ByCpu", 1, 1 >>] = 2
        /\ received[t][<< "ByCpu", 1, 1 >>] = 0

\* the series of the i-th dimension of t's metric
DimKeys(t, i) ==
    LET d == metrics[t].dimensions[i]
    IN IF d.kind = "By" THEN {Key(Name(metrics[t].meter), d.labels, None)}
       ELSE {Key(Name(metrics[t].meter), d.labels, c) : c \in Range(cpus[t])}

\* the places in t's calls where a series of K is registered
Positions(t, K) ==
    {p \in DOMAIN calls[t] : calls[t][p].op = "register_counter" /\ calls[t][p].key \in K}

\* the meter is described exactly once, before anything else
DescribedOnceFirst(t) ==
    /\ calls[t] # << >>
    /\ calls[t][1] = [op |-> "describe_counter", key |-> Name(metrics[t].meter)]
    /\ \A p \in DOMAIN calls[t] : calls[t][p].op = "describe_counter" => p = 1

\* C17 as claimed: the meter is described once first, and every aggregate
\* handle is registered before every per-CPU handle, whatever the order of the
\* dimension list.
C17_AggregatesBeforePerCpu ==
    \A t \in Tasks :
        Started(t) =>
            /\ DescribedOnceFirst(t)
            /\ \A i, j \in DOMAIN metrics[t].dimensions :
                   (metrics[t].dimensions[i].kind = "By"
                        /\ metrics[t].dimensions[j].kind = "ByCpu") =>
                       \A p \in Positions(t, DimKeys(t, i)) :
                           \A q \in Positions(t, DimKeys(t, j)) : p < q

\* C17, amended: the meter is described once first, then the handles are
\* registered in the order of the dimension list, one for an aggregate
\* dimension and one per captured CPU for a per-CPU dimension.
C17_RegisteredInListOrder ==
    \A t \in Tasks :
        Started(t) =>
            LET ds == metrics[t].dimensions
                size == [i \in DOMAIN ds |-> IF ds[i].kind = "By" THEN 1 ELSE Len(cpus[t])]
                before == [i \in DOMAIN ds |-> 1 + SumOver(size, 1..(i - 1))]
            IN /\ DescribedOnceFirst(t)
               /\ Len(calls[t]) = 1 + SumOver(size, DOMAIN ds)
               /\ \A i \in DOMAIN ds : \A n \in 1..size[i] :
                      calls[t][before[i] + n] =
                          [op |-> "register_counter",
                           key |-> Key(Name(metrics[t].meter), ds[i].labels,
                                       IF ds[i].kind = "By" THEN None ELSE cpus[t][n])]

\* C17, witness: a per-CPU dimension listed before an aggregate one, over two
\* CPUs: the two per-CPU handles are registered before the aggregate handle
C17_Witness ==
    \E t \in Tasks :
        /\ Started(t) /\ Len(cpus[t]) = 2 /\ Len(calls[t]) = 4
        /\ metrics[t].dimensions = << ByCpu("hostname"), By("none") >>
        /\ calls[t][2].key.cpu = 0 /\ calls[t][3].key.cpu = 1
        /\ calls[t][4].key = Key(Name(metrics[t].meter), "none", None)

\* the series handle h of t refers to
KeyOf(t, h) ==
    IF h[1] = "By" THEN counter_handles[t][h[2]]
    ELSE counter_handles_by_cpu[t][h[2]][h[3]]

\* what the last delta loop of t incremented handle h by, 0 if it did not
Incremented(rcv, h) == IF rcv[h] = None THEN 0 ELSE rcv[h]

\* a delta loop of t runs in the step
Emits(t) == pc[t] = "emit" /\ pc'[t] # "emit"

\* C18 as claimed: for any dimensions, a delta loop changes the accumulated
\* value of the series of a handle by the increment made through that handle
\* alone: no increment through a handle of another dimension reaches it.
C18_IndependentHandles ==
    [][\A t \in Tasks :
           Emits(t) =>
               \A h \in ByIds(t) \cup ByCpuIds(t) :
                   recorder'[KeyOf(t, h)] =
                       (recorder[KeyOf(t, h)] + Incremented(received'[t], h)) % U64]_vars

\* C18, amended: ... for a handle whose series has a key (name, labels, cpu)
\* that no other handle of the task has.
C18_IndependentWhenKeysDiffer ==
    [][\A t \in Tasks :
           Emits(t) =>
               \A h \in ByIds(t) \cup ByCpuIds(t) :
                   (\A g \in (ByIds(t) \cup ByCpuIds(t)) \ {h} : KeyOf(t, g) # KeyOf(t, h)) =>
                       recorder'[KeyOf(t, h)] =
                           (recorder[KeyOf(t, h)] + Incremented(received'[t], h)) % U64]_vars

\* C18, witness: two ticks of a metric with an aggregate and a per-CPU
\* dimension of the same labels over two CPUs: the aggregate series holds 3 and
\* the per-CPU series 1 and 2
C18_Witness ==
    \E t \in Tasks :
        /\ LastTickDone(t) /\ ticks[t] = 2 /\ Len(cpus[t]) = 2
        /\ metrics[t].dimensions = << By("hostname"), ByCpu("hostname") >>
        /\ recorder[KeyOf(t, << "By", 1, None >>)] = 3
        /\ recorder[KeyOf(t, << "ByCpu", 1, 0 >>)] = 1
        /\ recorder[KeyOf(t, << "ByCpu", 1, 1 >>)] = 2
        /\ received[t][<< "By", 1, None >>] = 1

\* C19: a task started with no CPU online has registered one handle per
\* aggregate dimension, ends only by a failed read (never by a panic), and has
\* incremented each aggregate handle on every completed tick, by 0: its
\* aggregate series stay at zero.
C19_EmptyOnlineSet ==
    \A t \in Tasks :
        (Started(t) /\ cpus[t] = << >>) =>
            /\ Len(counter_handles[t]) =
                   Cardinality({i \in DOMAIN metrics[t].dimensions :
                                    metrics[t].dimensions[i].kind = "By"})
            /\ pc[t] # "panicked"
            /\ task_result[t] \in {NoError, "OutOfBounds", "KeyNotFound"}
            /\ \A h \in ByIds(t) :
                   /\ KeyOf(t, h) \in DOMAIN recorder
                   /\ recorder[KeyOf(t, h)] = 0
                   /\ inc_count[t][h] = ticks[t]
                   /\ ticks[t] >= 1 => received[t][h] = 0

\* C19, witness: two ticks with no CPU online, over a table that is not zero
C19_Witness ==
    \E t \in Tasks :
        /\ Started(t) /\ cpus[t] = << >> /\ ticks[t] = 2
        /\ Len(counter_handles[t]) = 2
        /\ counter_values[t] = (0 :> 1) @@ (1 :> 2)
        /\ \A h \in ByIds(t) : inc_count[t][h] = 2 /\ recorder[KeyOf(t, h)] = 0

\* C20: a decrease of a CPU's value is not an error: the task never panics,
\* and on every tick the delta of a captured CPU is (current - previous) mod
\* 2^64, each per-CPU handle of the CPU receives it, and previous becomes
\* current.
C20_WraparoundDelta ==
    \A t \in Tasks :
        /\ pc[t] # "panicked"
        /\ LastTickDone(t) =>
               \A c \in Range(cpus[t]) :
                   /\ last_delta[t][c] = (counter_values[t][c] - snapshot_prev[t][c] + U64) % U64
                   /\ prev_values[t][c] = counter_values[t][c]
                   /\ \A j \in DOMAIN counter_handles_by_cpu[t] :
                          received[t][<< "ByCpu", j, c >>] = last_delta[t][c]

\* C21: a task whose topology read fails (the possible CPU count or the online
\* CPU ids) ends with that error before anything else happens: it made no
\* recorder call but the description, registered no handle, never created its
\* previous-state, never read the counter table and never incremented
\* anything, and run returns that very error.
C21_TopologyFailureIsFatal ==
    \A t \in Tasks :
        task_result[t] \in {"InvalidPossibleCpu", "InvalidOnlineCpu"} =>
            /\ pc[t] = "terminated"
            /\ run_state = "returned"
            /\ run_result = task_result[t]
            /\ calls[t] = << Describe(metrics[t]) >>
            /\ counter_handles[t] = << >>
            /\ counter_handles_by_cpu[t] = << >>
            /\ ~Started(t)
            /\ reads[t] = 0
            /\ ticks[t] = 0
            /\ \A k \in DOMAIN recorder :
                   \E u \in Tasks \ {t} : k \in HandleKeys(counter_handles[u],
                                                            counter_handles_by_cpu[u])

\* C21, witness: the online CPU ids cannot be read at the start of one task
\* while the other task has completed a tick
C21_Witness ==
    \E t, u \in Tasks :
        /\ t # u
        /\ task_result[t] = "InvalidOnlineCpu"
        /\ run_result = "InvalidOnlineCpu"
        /\ ticks[u] = 1
        /\ pc[u] = "cancelled"

\* C22: counter(c, v) adds v to the slot index(c) of the calling CPU and
\* leaves every other slot alone: from the all-zero map, after any calls every
\* slot holds the sum of the values added to it, no call fails and no slot
\* has ever decreased.
C22_SlotsHoldSums ==
    /\ producer.state = "running"
    /\ ~decreased
    /\ \A slot \in DOMAIN counters : \A cpu \in CpuIds :
           counters[slot][cpu] = producer.added[slot][cpu]

\* C23: the guard of the mutex is held only for the snapshot read: whoever
\* holds it is at its read, so a task at its delta loop, waiting for its
\* interval or for the mutex, or ended (also by a failed read) does not hold
\* it; when no task is at its read the mutex is free, and a task in its delta
\* loop never keeps a waiting task from locking.
C23_GuardOnlyForRead ==
    /\ mutex \in {Unlocked} \cup Tasks
    /\ \A t \in Tasks :
           /\ mutex = t => pc[t] = "read"
           /\ task_result[t] \in {"OutOfBounds", "KeyNotFound"} => mutex = Unlocked
           /\ \A u \in Tasks :
                  (pc[t] = "emit" /\ pc[u] = "lock"
                       /\ \A w \in Tasks : pc[w] # "read") => CanLock(u)

\* C23, witness: one task is in its delta loop, its read done, while the other
\* holds the guard for its own read
C23_Witness ==
    \E t, u \in Tasks :
        /\ pc[t] = "emit" /\ reads[t] = 1
        /\ pc[u] = "read" /\ mutex = u

\* C24: a task that has completed n ticks has incremented every aggregate
\* handle and every per-CPU handle of a CPU captured at start exactly n times,
\* the ticks whose increment was 0 included; the per-CPU handles of the other
\* CPUs were never incremented.
C24_OneIncrementPerTick ==
    \A t \in Tasks :
        (Started(t) /\ pc[t] # "panicked") =>
            /\ \A h \in ByIds(t) \cup ByCpuIds(t) : inc_count[t][h] = ticks[t]
            /\ \A j \in DOMAIN counter_handles_by_cpu[t] :
                   \A c \in CpuIds \ Range(cpus[t]) : inc_count[t][<< "ByCpu", j, c >>] = 0

\* C24, witness: two completed ticks, the second over an unchanged table that
\* is not zero: every aggregate and per-CPU handle received 0 on it and counts
\* two increments
C24_Witness ==
    \E t \in Tasks :
        /\ LastTickDone(t) /\ ticks[t] = 2
        /\ counter_handles[t] # << >> /\ counter_handles_by_cpu[t] # << >>
        /\ cpus[t] # << >>
        /\ \E c \in Range(cpus[t]) : counter_values[t][c] > 0
        /\ \A h \in ByIds(t) \cup ByCpuIds(t) :
               received[t][h] = 0 /\ inc_count[t][h] = 2

\* C25: prev_values of a started task always has one slot per possible CPU; it
\* is all zero until the first tick completes; after every completed tick it
\* holds, for every CPU captured at start, the value that tick's snapshot had
\* for the CPU, and 0 at every other index; its length never changes and only
\* the task's own delta loop writes it.
C25_PreviousState ==
    /\ [](\A t \in Tasks :
              Started(t) =>
                  /\ DOMAIN prev_values[t] = CpuIds
                  /\ (ticks[t] = 0 /\ pc[t] # "panicked") => prev_values[t] = Zeros
                  /\ LastTickDone(t) =>
                         \A c \in Range(cpus[t]) : prev_values[t][c] = counter_values[t][c]
                  /\ \A i \in CpuIds \ Range(cpus[t]) : prev_values[t][i] = 0)
    /\ [][\A t \in Tasks :
              /\ Started(t) => DOMAIN prev_values'[t] = DOMAIN prev_values[t]
              /\ prev_values'[t] # prev_values[t] => pc[t] \in {"created", "emit"}]_vars

\* C25, witness: two tasks have each completed a tick over the same CPU; the
\* table changed between their reads and each keeps what it read itself
C25_Witness ==
    \E t, u \in Tasks :
        /\ LastTickDone(t) /\ LastTickDone(u)
        /\ cpus[t] = << 0 >> /\ cpus[u] = << 0 >>
        /\ prev_values[t][0] = 1 /\ prev_values[u][0] = 2
        /\ ticks[u] = 2

\* C26: under fair scheduling, unless some task returns an error, every task
\* goes on completing ticks: each reaches the MaxTicks completed ticks the
\* model lets it make.
C26_EveryTaskKeepsTicking ==
    <>(\/ \E t \in Tasks : task_result[t] # NoError
       \/ \A t \in Tasks : ticks[t] = MaxTicks)

\* the captured CPUs of t that have a slot in the per-CPU values
Slotted(t) == Range(cpus[t]) \cap CpuIds

\* C27: a task that captured at start a CPU whose id has no slot in the values
\* read skips that CPU on every tick without error: it panics only on an
\* arithmetic overflow and returns only a read error; after every completed
\* tick prev_values has no entry for the CPU and holds the snapshot for the
\* CPUs with a slot, the task holds no per-CPU handle, and every aggregate
\* handle received the sum of the deltas of the CPUs with a slot.
C27_MissingSlotSkipped ==
    \A t \in Tasks :
        (Started(t) /\ Range(cpus[t]) \ CpuIds # {}) =>
            /\ pc[t] = "panicked" => (overflow_checks /\ decreased)
            /\ task_result[t] \in {NoError, "OutOfBounds", "KeyNotFound"}
            /\ counter_handles_by_cpu[t] = << >>
            /\ DOMAIN prev_values[t] = CpuIds
            /\ LastTickDone(t) =>
                   /\ DOMAIN counter_values[t] = CpuIds
                   /\ \A c \in Slotted(t) : prev_values[t][c] = counter_values[t][c]
                   /\ \A c \in CpuIds \ Slotted(t) : prev_values[t][c] = 0
                   /\ \A h \in ByIds(t) :
                          /\ received[t][h] = SumU64(last_delta[t], Slotted(t))
                          /\ inc_count[t][h] = ticks[t]

\* C27, witness: the online CPUs are 0 and MaxCpus, the second without a slot;
\* two ticks are completed and the aggregate handle received the delta of CPU 0
C27_Witness ==
    \E t \in Tasks :
        /\ Started(t) /\ LastTickDone(t) /\ ticks[t] = 2
        /\ cpus[t] = << 0, MaxCpus >>
        /\ prev_values[t][0] = 2 /\ snapshot_prev[t][0] = 1
        /\ received[t][<< "By", 1, None >>] = 1

====
